---- MODULE Spec2Model ----
(***************************************************************************)
(* State-preparation circuit synthesis of the Line-Drawing benchmark:      *)
(*   Shende_Bullock_Markov / prepare_multiplexed   (level-by-level)        *)
(*   Bergholm_Vartiainen_Mottonen_Salomaa          (recursive)             *)
(*                                                                         *)
(* Numbers.  The sources compute in floating point; the model computes     *)
(* exactly on a grid on which every quantity of the sources is exact:      *)
(*  - an amplitude is a record [w, a]: |amplitude|^2 = w / 4^n for an      *)
(*    n-qubit vector, np.angle(amplitude) = a;                             *)
(*  - an angle is an integer number of units, PiUnits units making pi;     *)
(*    np.angle returns values in (-pi, pi], here (-PiUnits, PiUnits];      *)
(*  - the sources keep theta and phi as multiples of pi and hand           *)
(*    theta * np.pi to the gate; the model keeps the gate's angle (in      *)
(*    units) throughout, so the factor np.pi is the unit itself.           *)
(***************************************************************************)
EXTENDS Integers, Sequences, FiniteSets, TLC

\* Largest number of qubits of a synthesizer call.
MaxN == 3
\* Largest number of control qubits of a direct prepare_multiplexed call.
MaxK == 2
\* Largest number of states of such a call that differ from the state (1, 0).
MaxOther == 2

Pow2(k) == 2 ^ k
Pow4(k) == 4 ^ k
\* pi, in angle units: divisible by 3 (arccos table), by 4 (input phases) and
\* by the powers of two the means and the 1/2^n factors divide by.
PiUnits == 12 * Pow4(MaxN + 1)

\* ---------------------------------------------------------------- sequences
\* Python list helpers (0-based indices i of the sources are i + 1 here).
Rev(s) == [p \in 1..Len(s) |-> s[Len(s) + 1 - p]]
Slice(s, lo, hi) == [p \in 1..(hi - lo) |-> s[lo + p]]
RECURSIVE SumSeq(_)
SumSeq(s) == IF Len(s) = 0 THEN 0 ELSE s[1] + SumSeq(Tail(s))
RECURSIVE Flatten(_)
Flatten(ss) == IF Len(ss) = 0 THEN <<>> ELSE ss[1] \o Flatten(Tail(ss))
Min2(x, y) == IF x < y THEN x ELSE y

\* ------------------------------------------------------------------- gates
NoQubit == -1
RY(angle, q) == [kind |-> "RY", angle |-> angle, target |-> q, control |-> NoQubit]
RZ(angle, q) == [kind |-> "RZ", angle |-> angle, target |-> q, control |-> NoQubit]
\* Mutant: the arguments of pq.gates.CNOT exchanged.
CNOT_Swapped(c, q) == [kind |-> "CNOT", angle |-> 0, target |-> c, control |-> q]
CNOT(c, q) == [kind |-> "CNOT", angle |-> 0, target |-> q, control |-> c]

\* ------------------------------------------------------- numeric primitives
\* np.angle of exp(1j * x): x brought into [-pi, pi].  At an odd multiple of
\* pi the imaginary part of exp(1j * x) is a rounding residue with the sign of
\* x, so that np.angle gives pi for x > 0 and -pi for x < 0.
Wrap(x) ==
    LET m == x % (2 * PiUnits)
    IN  IF m > PiUnits THEN m - 2 * PiUnits
        ELSE IF m = PiUnits /\ x < 0 THEN -PiUnits
        ELSE m
\* np.angle of (0 + 0j) / exp(1j * t) for t in [-pi, pi]: the quotient is a
\* signed zero, whose signs follow those of cos(t) and sin(t) in the complex
\* division, and np.angle of -0-0j is -pi, of -0+0j is pi, of 0+0j is 0.
ZeroOverPhase(t) ==
    IF t < -(PiUnits \div 2) THEN -PiUnits
    ELSE IF t < -(PiUnits \div 4) THEN PiUnits
    ELSE IF t <= (3 * PiUnits) \div 4 THEN 0
    ELSE -PiUnits

\* 2 * np.arccos(c) for c = sqrt(c2 / 4), c2 in 0..4, as a gate angle.
TwoArcCos(c2) ==
    CASE c2 = 4 -> 0
      [] c2 = 3 -> PiUnits \div 3
      [] c2 = 2 -> PiUnits \div 2
      [] c2 = 1 -> (2 * PiUnits) \div 3
      [] c2 = 0 -> PiUnits

\* An effective 2-dimensional state handed to prepare_multiplexed:
\* |state[0]|^2 = c2 / 4 with state[0] real and >= 0, |state[1]|^2 = s2 / 4,
\* np.angle(state[1]) = phi; nan marks the result of dividing by a zero norm,
\* over a state[0] that the divisions rounded to just above 1.
EffState(c2, s2, phi) ==
    [nan |-> FALSE, over |-> FALSE, c2 |-> c2, s2 |-> s2, phi |-> phi]
NanState == [nan |-> TRUE, over |-> FALSE, c2 |-> 0, s2 |-> 0, phi |-> 0]
OverState(phi) == [nan |-> FALSE, over |-> TRUE, c2 |-> 4, s2 |-> 0, phi |-> phi]
\* The angle of a rotation whose angle is nan.
NanAngle == 16 * PiUnits

\* Mutant: the tolerance test without abs(), which lets every short vector pass.
NormIsOne_NoAbs(num, den) == num <= den

\* abs(np.linalg.norm(v) - 1.) < 1e-8 for a vector of squared norm num / den.
\* On the grid num and den are integers below 10^4, so a norm other than 1 is
\* off by more than 10^-5 and the test is the equality of num and den.
NormIsOne(num, den) == num = den

\* Mutant: the code built without reversed(), which is the natural order.
RECURSIVE GrayBs_NotReflected(_)
GrayBs_NotReflected(n) ==
    IF n = 0 THEN << <<0>> >>
    ELSE LET bs == GrayBs_NotReflected(n - 1)
         IN  [p \in 1..Len(bs) |-> <<0>> \o bs[p]]
             \o [p \in 1..Len(bs) |-> <<1>> \o bs[p]]

\* ------------------------------------------------------ prepare_multiplexed
\* Gray code of the control bit-strings (lines 34-38): n + 1 bits per string,
\* the last one always 0.
RECURSIVE GrayBs(_)
GrayBs(n) ==
    IF n = 0 THEN << <<0>> >>
    ELSE LET bs == GrayBs(n - 1)
         IN  [p \in 1..Len(bs) |-> <<0>> \o bs[p]]
             \o [p \in 1..Len(bs) |-> <<1>> \o Rev(bs)[p]]

\* Mutant: nums extended without reversed().
GrayNumsStep_NotReversed(nums, i) == nums \o [p \in 1..Len(nums) |-> nums[p] + Pow2(i)]
GrayNumsStep(nums, i) == nums \o [p \in 1..Len(nums) |-> Rev(nums)[p] + Pow2(i)]
RECURSIVE GrayNumsFrom(_, _, _)
GrayNumsFrom(nums, i, n) ==
    IF i >= n THEN nums ELSE GrayNumsFrom(GrayNumsStep(nums, i), i + 1, n)
GrayNums(n) == GrayNumsFrom(<<0>>, 0, n)

\* f'{i:0{n}b}' as a tuple of ints (line 41): the binary digits of i, padded
\* with zeros to width n, at least one digit.
RECURSIVE NumDigits(_)
NumDigits(i) == IF i < 2 THEN 1 ELSE 1 + NumDigits(i \div 2)
BinaryDigits(i, n) ==
    LET width == IF NumDigits(i) > n THEN NumDigits(i) ELSE n
    IN  [p \in 1..width |-> (i \div Pow2(width - p)) % 2]
NaturalBs(n) == [p \in 1..Pow2(n) |-> BinaryDigits(p - 1, n)]
NaturalNums(n) == [p \in 1..Pow2(n) |-> p - 1]

\* Mutant: the test of GRAY_CODE inverted where the bit-strings are loaded.
BitStrings_Swapped(n, GRAY_CODE) == IF GRAY_CODE THEN NaturalBs(n) ELSE GrayBs(n)
BitStrings(n, GRAY_CODE) == IF GRAY_CODE THEN GrayBs(n) ELSE NaturalBs(n)
\* Mutant: every table indexed by list position (enumerate) whatever the order.
Nums_Positions(n, GRAY_CODE) == NaturalNums(n)
Nums(n, GRAY_CODE) == IF GRAY_CODE THEN GrayNums(n) ELSE NaturalNums(n)

\* sum(x*y for x,y in zip(b,d)); zip stops at the shorter one.
Dot(b, d) == SumSeq([p \in 1..Min2(Len(b), Len(d)) |-> b[p] * d[p]])
\* (-1)**k
MinusOneTo(k) == IF k % 2 = 0 THEN 1 ELSE -1

\* sum((-1)**sum(x*y ...) * vals[j] for j,d in zip(idx,bs)) / 2**n, the angle
\* of the rotation emitted for bit-string b (lines 49, 62, 70, 76, 86).
\* Mutant: the signed sum without its factor 1 / 2**n.
WalshAngle_Unscaled(b, vals, idx, bs, n) ==
    SumSeq([p \in 1..Min2(Len(idx), Len(bs)) |->
              MinusOneTo(Dot(b, bs[p])) * vals[idx[p] + 1]])
\* A nan among the summed values makes the sum nan.
WalshAngle(b, vals, idx, bs, n) ==
    IF \E p \in 1..Min2(Len(idx), Len(bs)) : vals[idx[p] + 1] = NanAngle
    THEN NanAngle
    ELSE SumSeq([p \in 1..Min2(Len(idx), Len(bs)) |->
                   MinusOneTo(Dot(b, bs[p])) * vals[idx[p] + 1]]) \div Pow2(n)

\* enumerate(bs): the positions 0, 1, ... (line 57).
Positions(bs) == [p \in 1..Len(bs) |-> p - 1]
\* Mutant: every RY sum written with enumerate(bs).
ThetaIndex_PositionsThroughout(bs, nums, REVERSE_ZS, p) == Positions(bs)
\* The indices j the sum of the p-th RY pairs with the bit-strings d of bs:
\* zip(nums, bs) (lines 49 and 76), but enumerate(bs) in the final RY of the
\* REVERSE_ZS branch (line 57).
ThetaIndex(bs, nums, REVERSE_ZS, p) ==
    IF REVERSE_ZS /\ p = Len(bs) THEN Positions(bs) ELSE nums
\* The same for the RZ on bit-string bs[p]: zip(nums, bs) throughout (lines
\* 63, 71 and 86).
PhiIndex(bs, nums, REVERSE_ZS, p) == nums

\* The CNOTs emitted between bit-strings b and c (lines 53-55, 67-69, 80-82,
\* 90-92): one per position j where they differ, controlled on
\* control_qubits[j].
RECURSIVE CnotsFrom(_, _, _, _, _)
CnotsFrom(j, b, c, control_qubits, target_qubit) ==
    IF j > Min2(Len(b), Len(c)) THEN <<>>
    ELSE (IF b[j] # c[j] THEN <<CNOT(control_qubits[j], target_qubit)>> ELSE <<>>)
         \o CnotsFrom(j + 1, b, c, control_qubits, target_qubit)
\* Mutant: a CNOT for every control, whether its bit changes or not.
Cnots_EveryControl(b, c, control_qubits, target_qubit) ==
    [j \in 1..Len(control_qubits) |-> CNOT(control_qubits[j], target_qubit)]
Cnots(b, c, control_qubits, target_qubit) ==
    CnotsFrom(1, b, c, control_qubits, target_qubit)

\* thetas and phis of the states (lines 29-30), as gate angles.
Thetas(states) ==
    [j \in 1..Len(states) |->
        IF states[j].over THEN NanAngle ELSE TwoArcCos(states[j].c2)]
Phis(states) == [j \in 1..Len(states) |-> states[j].phi]

\* Mutant: each RZ of the backward walk computed for the bit-string the
\* transition leaves (c) instead of the one it reaches (b).
ReverseZsBranch_RzOfSource(thetas, phis, bs, nums, n, control_qubits, target_qubit) ==
    LET N == Len(bs)
        ry == Flatten([p \in 1..(N - 1) |->
                 <<RY(WalshAngle(bs[p], thetas, nums, bs, n), target_qubit)>>
                 \o Cnots(bs[p], bs[p + 1], control_qubits, target_qubit)])
        lastRy == RY(WalshAngle(bs[N], thetas, Positions(bs), bs, n), target_qubit)
        firstRz == RZ(WalshAngle(bs[N], phis, nums, bs, n), target_qubit)
        rz == Flatten([p \in 1..(N - 1) |->
                 Cnots(bs[N - p], bs[N - p + 1], control_qubits, target_qubit)
                 \o <<RZ(WalshAngle(bs[N - p + 1], phis, nums, bs, n), target_qubit)>>])
    IN  ry \o <<lastRy>> \o <<firstRz>> \o rz

\* Mutant: a REVERSE_ZS branch whose RY pass also closes the cycle and whose
\* RZ pass opens it again, two transitions more than lines 47-72 make.
ReverseZsBranch_ClosedPasses(thetas, phis, bs, nums, n, control_qubits, target_qubit) ==
    LET N == Len(bs)
        ry == Flatten([p \in 1..(N - 1) |->
                 <<RY(WalshAngle(bs[p], thetas, nums, bs, n), target_qubit)>>
                 \o Cnots(bs[p], bs[p + 1], control_qubits, target_qubit)])
        lastRy == RY(WalshAngle(bs[N], thetas, Positions(bs), bs, n), target_qubit)
        firstRz == RZ(WalshAngle(bs[N], phis, nums, bs, n), target_qubit)
        rz == Flatten([p \in 1..(N - 1) |->
                 Cnots(bs[N - p], bs[N - p + 1], control_qubits, target_qubit)
                 \o <<RZ(WalshAngle(bs[N - p], phis, nums, bs, n), target_qubit)>>])
    IN  ry \o <<lastRy>> \o Cnots(bs[N], bs[1], control_qubits, target_qubit)
           \o Cnots(bs[1], bs[N], control_qubits, target_qubit)
           \o <<firstRz>> \o rz

\* Lines 46-72: the multiplexed Ry walked forward without the closing
\* transition, then the multiplexed Rz walked backward.
ReverseZsBranch(thetas, phis, bs, nums, n, control_qubits, target_qubit) ==
    LET N == Len(bs)
        ry == Flatten([p \in 1..(N - 1) |->
                 <<RY(WalshAngle(bs[p], thetas, ThetaIndex(bs, nums, TRUE, p), bs, n),
                      target_qubit)>>
                 \o Cnots(bs[p], bs[p + 1], control_qubits, target_qubit)])
        lastRy == RY(WalshAngle(bs[N], thetas, ThetaIndex(bs, nums, TRUE, N), bs, n),
                     target_qubit)
        firstRz == RZ(WalshAngle(bs[N], phis, PhiIndex(bs, nums, TRUE, N), bs, n),
                      target_qubit)
        \* zip(bs[-1:0:-1], bs[-2::-1]): c = bs[N - p + 1], b = bs[N - p]
        rz == Flatten([p \in 1..(N - 1) |->
                 Cnots(bs[N - p], bs[N - p + 1], control_qubits, target_qubit)
                 \o <<RZ(WalshAngle(bs[N - p], phis, PhiIndex(bs, nums, TRUE, N - p),
                                    bs, n), target_qubit)>>])
    IN  ry \o <<lastRy>> \o <<firstRz>> \o rz

\* Mutant: the passes zipped with bs[1:] alone, which leaves out the last
\* rotation's successor and with it the closing CNOTs.
ForwardBranch_Unclosed(thetas, phis, bs, nums, n, control_qubits, target_qubit) ==
    LET N == Len(bs)
        ry == Flatten([p \in 1..N |->
                 <<RY(WalshAngle(bs[p], thetas, nums, bs, n), target_qubit)>>
                 \o (IF p < N THEN Cnots(bs[p], bs[p + 1], control_qubits, target_qubit)
                     ELSE <<>>)])
        rz == Flatten([p \in 1..N |->
                 <<RZ(WalshAngle(bs[p], phis, nums, bs, n), target_qubit)>>
                 \o (IF p < N THEN Cnots(bs[p], bs[p + 1], control_qubits, target_qubit)
                     ELSE <<>>)])
    IN  ry \o rz

\* Lines 73-92: two independent full passes, each closing the cycle.
ForwardBranch(thetas, phis, bs, nums, n, control_qubits, target_qubit) ==
    LET N == Len(bs)
        next == Tail(bs) \o <<bs[1]>>
        ry == Flatten([p \in 1..N |->
                 <<RY(WalshAngle(bs[p], thetas, ThetaIndex(bs, nums, FALSE, p), bs, n),
                      target_qubit)>>
                 \o Cnots(bs[p], next[p], control_qubits, target_qubit)])
        rz == Flatten([p \in 1..N |->
                 <<RZ(WalshAngle(bs[p], phis, PhiIndex(bs, nums, FALSE, p), bs, n),
                      target_qubit)>>
                 \o Cnots(bs[p], next[p], control_qubits, target_qubit)])
    IN  ry \o rz

\* The assertions of lines 25-26.
PmLengthOk(states, control_qubits) == Len(states) = Pow2(Len(control_qubits))
PmNormsOk(states) ==
    \A j \in 1..Len(states) :
        ~states[j].nan /\ NormIsOne(states[j].c2 + states[j].s2, 4)

\* Mutant: the branch chosen by the ordering instead of by REVERSE_ZS.
prepare_multiplexed_BranchByOrder(states, control_qubits, target_qubit, GRAY_CODE, REVERSE_ZS) ==
    LET n == Len(control_qubits)
        bs == BitStrings(n, GRAY_CODE)
        nums == Nums(n, GRAY_CODE)
    IN  IF GRAY_CODE
        THEN ReverseZsBranch(Thetas(states), Phis(states), bs, nums, n,
                             control_qubits, target_qubit)
        ELSE ForwardBranch(Thetas(states), Phis(states), bs, nums, n,
                           control_qubits, target_qubit)

\* prepare_multiplexed (lines 24-94) on inputs that pass its assertions.
prepare_multiplexed(states, control_qubits, target_qubit, GRAY_CODE, REVERSE_ZS) ==
    LET n == Len(control_qubits)
        bs == BitStrings(n, GRAY_CODE)
        nums == Nums(n, GRAY_CODE)
    IN  IF REVERSE_ZS
        THEN ReverseZsBranch(Thetas(states), Phis(states), bs, nums, n,
                             control_qubits, target_qubit)
        ELSE ForwardBranch(Thetas(states), Phis(states), bs, nums, n,
                           control_qubits, target_qubit)

\* --------------------------------------------------- Shende_Bullock_Markov
\* An amplitude: squared modulus w (in units of 1 / 4^n) and np.angle a.
Amp(w, a) == [w |-> w, a |-> a]
NormSq(v) == SumSeq([p \in 1..Len(v) |-> v[p].w])
\* np.mean(np.angle(v))
MeanAngle(v) == SumSeq([p \in 1..Len(v) |-> v[p].a]) \div Len(v)

\* normalize_and_remove_phase (lines 4-5) of the 2-vector
\* (exp(1j*ml) * sqrt(wl), exp(1j*mu) * sqrt(wu)): division by the norm, then
\* by the phase of the first entry.  A zero norm yields nan entries (numpy
\* divides with a warning, not an exception).  np.angle(v[0]) is 0 for a zero
\* first entry; a zero second entry divided by the phase is a signed zero.
\* Two results hang on how the divisions round, rnd:
\*  - at a phase difference of exactly pi the imaginary part of the second
\*    entry is a residue of either sign, and np.angle gives pi or -pi;
\*  - a first entry of modulus 1 divided by a phase other than 0 has real
\*    part 1 or just above 1, of which np.arccos (line 29) is nan.
Roundings == {"down", "up"}
PhaseOpposite(wl, ml, wu, mu) ==
    wl > 0 /\ wu > 0 /\ (mu - Wrap(ml)) % (2 * PiUnits) = PiUnits
PhaseOnWhole(wl, ml, wu, mu) == wl > 0 /\ wu = 0 /\ Wrap(ml) # 0
RoundingMatters(wl, ml, wu, mu) ==
    PhaseOpposite(wl, ml, wu, mu) \/ PhaseOnWhole(wl, ml, wu, mu)
normalize_and_remove_phase(wl, ml, wu, mu, rnd) ==
    IF wl + wu = 0 THEN NanState
    ELSE LET phase0 == IF wl > 0 THEN Wrap(ml) ELSE 0
         IN  IF PhaseOnWhole(wl, ml, wu, mu) /\ rnd = "up"
             THEN OverState(ZeroOverPhase(phase0))
             ELSE EffState((4 * wl) \div (wl + wu), (4 * wu) \div (wl + wu),
                    IF wu = 0 THEN ZeroOverPhase(phase0)
                    ELSE IF PhaseOpposite(wl, ml, wu, mu)
                    THEN (IF rnd = "up" THEN PiUnits ELSE -PiUnits)
                    ELSE Wrap(mu - phase0))

\* The two halves of block j at level i (lines 16-19), i and j 0-based:
\* norm squared and mean angle of the lower and of the upper half.
BlockHalves(state, n, i, j) ==
    LET h == Pow2(n - i - 1)
        lo == Slice(state, 2 * j * h, (2 * j + 1) * h)
        hi == Slice(state, (2 * j + 1) * h, (2 * j + 2) * h)
    IN  [wl |-> NormSq(lo), ml |-> MeanAngle(lo), wu |-> NormSq(hi), mu |-> MeanAngle(hi)]
\* The effective state of block j at level i (lines 15-20).
BlockState(state, n, i, j, rnd) ==
    LET b == BlockHalves(state, n, i, j)
    IN  normalize_and_remove_phase(b.wl, b.ml, b.wu, b.mu, rnd)
\* How the divisions of the blocks of level i may round: one choice for
\* each block whose result hangs on it.
LevelRoundings(state, n, i) ==
    LET matters == {p \in 1..Pow2(i) :
                      LET b == BlockHalves(state, n, i, p - 1)
                      IN  RoundingMatters(b.wl, b.ml, b.wu, b.mu)}
    IN  {[p \in 1..Pow2(i) |-> IF p \in matters THEN f[p] ELSE "down"] :
            f \in [matters -> Roundings]}
LevelStates(state, n, i, rnds) ==
    [p \in 1..Pow2(i) |-> BlockState(state, n, i, p - 1, rnds[p])]

\* Mutant: the length assertion with >= for ==.
SbmLengthOk_AtLeast(state, qubits) == Len(state) >= Pow2(Len(qubits))
\* The assertions of lines 8-9.
SbmLengthOk(state, qubits) == Len(state) = Pow2(Len(qubits))
SbmNormOk(state, qubits) == NormIsOne(NormSq(state), Pow4(Len(qubits)))

\* -------------------------------------------------------- circuit executor
\* The statevector a program prepares from the all-zero state (line 116),
\* for programs in which every gate on qubits[i] is an RY, an RZ or a CNOT
\* controlled on an earlier qubit of the list, all RYs on a qubit precede its
\* RZs, and the gates come in the order of their targets.  For a fixed value
\* of the earlier qubits the gates on qubits[i] multiply to RZ(Phi) RY(Theta),
\* because X RY(a) X = RY(-a) and X RZ(a) X = RZ(-a).
\* The place of qubit q in the list qubits (0 if it is not in it).
QubitPos(q, qubits) ==
    IF \E p \in 1..Len(qubits) : qubits[p] = q
    THEN CHOOSE p \in 1..Len(qubits) : qubits[p] = q
    ELSE 0
BitOf(idx, pos, n) == (idx \div Pow2(n - pos)) % 2
\* The value of qubit number q in entry idx of corrected_result.  The
\* simulator indexes psi by the qubits' numbers, whatever the order of the
\* list, psi[:2**n] keeps the entries in which the qubits numbered n and above
\* are 0, and lines 118-120 reverse the n bits: qubit q < n is bit q + 1,
\* counted from the most significant.
ResultBit(idx, q, n) == IF q \in 0..(n - 1) THEN BitOf(idx, q + 1, n) ELSE 0
\* The entries of corrected_result in which the qubits numbered below n that
\* the list leaves out, and no gate acts on, are 0.
OnListedQubits(idx, qubits) ==
    \A q \in 0..(Len(qubits) - 1) :
        QubitPos(q, qubits) = 0 => ResultBit(idx, q, Len(qubits)) = 0
Distinct(qubits) ==
    \A p, q \in 1..Len(qubits) : qubits[p] = qubits[q] => p = q

\* Running totals over the gates on one target for one basis index.
RECURSIVE NetFrom(_, _, _, _, _)
NetFrom(gs, p, idx, qubits, acc) ==
    IF p > Len(gs) THEN acc
    ELSE LET g == gs[p]
             sgn == IF acc.flip = 0 THEN 1 ELSE -1
         IN  CASE g.kind = "RY" ->
                    NetFrom(gs, p + 1, idx, qubits,
                            [acc EXCEPT !.theta = @ + sgn * g.angle,
                                        !.ok = @ /\ ~acc.sawRz])
               [] g.kind = "RZ" ->
                    NetFrom(gs, p + 1, idx, qubits,
                            [acc EXCEPT !.phi = @ + sgn * g.angle, !.sawRz = TRUE])
               [] g.kind = "CNOT" ->
                    LET cpos == QubitPos(g.control, qubits)
                        tpos == QubitPos(g.target, qubits)
                    IN  IF cpos = 0 \/ cpos >= tpos
                        THEN [acc EXCEPT !.ok = FALSE]
                        ELSE NetFrom(gs, p + 1, idx, qubits,
                                [acc EXCEPT !.flip =
                                    (@ + ResultBit(idx, g.control, Len(qubits))) % 2])
               [] OTHER -> [acc EXCEPT !.ok = FALSE]
GatesOn(prog, q) == SelectSeq(prog, LAMBDA g : g.target = q)
NetRotation(prog, qubits, pos, idx) ==
    NetFrom(GatesOn(prog, qubits[pos]), 1, idx, qubits,
            [theta |-> 0, phi |-> 0, flip |-> 0, sawRz |-> FALSE, ok |-> TRUE])

\* 4 * cos(theta / 2)^2 for the angles of the arccos table, -1 elsewhere.
CosSq4(theta) ==
    IF \E c2 \in 0..4 : TwoArcCos(c2) = theta
    THEN CHOOSE c2 \in 0..4 : TwoArcCos(c2) = theta
    ELSE -1

InTargetOrder(prog, qubits) ==
    /\ \A p \in 1..Len(prog) : QubitPos(prog[p].target, qubits) > 0
    /\ \A p \in 1..(Len(prog) - 1) :
          QubitPos(prog[p].target, qubits) <= QubitPos(prog[p + 1].target, qubits)

Executable(prog, qubits) ==
    /\ Distinct(qubits)
    /\ InTargetOrder(prog, qubits)
    /\ \A p \in 1..Len(prog) : prog[p].angle # NanAngle
    /\ \A pos \in 1..Len(qubits) : \A idx \in 0..(Pow2(Len(qubits)) - 1) :
          LET net == NetRotation(prog, qubits, pos, idx)
          IN  net.ok /\ net.flip = 0 /\ CosSq4(net.theta) >= 0

RECURSIVE ProdSeq(_)
ProdSeq(s) == IF Len(s) = 0 THEN 1 ELSE s[1] * ProdSeq(Tail(s))

\* Entry idx of the prepared statevector: squared modulus w (units 1 / 4^n)
\* and twice its phase, d.
Executed(prog, qubits) ==
    LET n == Len(qubits)
    IN  [p \in 1..Pow2(n) |->
          LET idx == p - 1
              net(pos) == NetRotation(prog, qubits, pos, idx)
          IN  IF ~OnListedQubits(idx, qubits) THEN [w |-> 0, d |-> 0]
              ELSE
              [w |-> ProdSeq([pos \in 1..n |->
                        IF ResultBit(idx, qubits[pos], n) = 0
                        THEN CosSq4(net(pos).theta)
                        ELSE 4 - CosSq4(net(pos).theta)]),
               d |-> SumSeq([pos \in 1..n |->
                        IF ResultBit(idx, qubits[pos], n) = 0 THEN -net(pos).phi
                        ELSE net(pos).phi])]]

\* np.angle(psi[0]) of line 117, as twice the angle.  Where entry 0 of the
\* statevector is zero the simulator leaves an exact 0 or a rounding
\* residue, whose angle may be any.
ReferencePhases(e) ==
    IF e[1].w > 0 THEN {e[1].d % (4 * PiUnits)} ELSE 0..(4 * PiUnits - 1)
\* The comparison of lines 117-127: psi divided by the phase ref of its entry
\* 0 agrees entry by entry with points as given.  On the grid two different
\* vectors differ by far more than 1e-6.
SameState(v, e, ref) ==
    /\ Len(v) = Len(e)
    /\ \A p \in 1..Len(v) : v[p].w = e[p].w
    /\ \A p \in 1..Len(v) :
          v[p].w > 0 => (2 * v[p].a - (e[p].d - ref)) % (4 * PiUnits) = 0

Reproduces(prog, qubits, v, ref) ==
    Executable(prog, qubits) /\ SameState(v, Executed(prog, qubits), ref)

\* ------------------------------------ Bergholm_Vartiainen_Mottonen_Salomaa
\* r > 1e-8 for r = sqrt(num / 4^n) (line 22).  On the grid a nonzero num
\* gives r >= 1 / 2^n, far above the threshold.
AboveThreshold(num) == num > 0

\* The 2x2 unitary of one pair (lines 19-22): the conjugate transpose of
\* [[s0/r, -conj(s1/r)], [s1/r, conj(s0/r)]], kept as the data that determine
\* it (|s0/r|^2 = c2/4, |s1/r|^2 = s2/4 and the two phases), or np.eye(2).
Identity2 == [identity |-> TRUE, c2 |-> 4, s2 |-> 0, a0 |-> 0, a1 |-> 0]
PairUnitary(s0, s1) ==
    LET r2 == s0.w + s1.w
    IN  IF AboveThreshold(r2)
        THEN [identity |-> FALSE, c2 |-> (4 * s0.w) \div r2, s2 |-> (4 * s1.w) \div r2,
              a0 |-> s0.a, a1 |-> s1.a]
        ELSE Identity2
\* Lines 13-22, i 0-based: s = state[2*i:2*i+2].
Unitaries(state, n) ==
    [p \in 1..Pow2(n - 1) |-> PairUnitary(state[2 * p - 1], state[2 * p])]
\* nullified_state[i] = r (line 18).
Nullified(state, n) ==
    [p \in 1..Pow2(n - 1) |-> Amp(state[2 * p - 1].w + state[2 * p].w, 0)]
\* nullified_state /= R[::2] (line 28), R a vector of phases (angles).
PhaseCorrected(nullified, R) ==
    [p \in 1..Len(nullified) |->
        Amp(nullified[p].w,
            IF nullified[p].w > 0 THEN Wrap(nullified[p].a - R[2 * p - 1])
            ELSE ZeroOverPhase(Wrap(R[2 * p - 1])))]

\* The Gray codes of 0 .. MaxN control bits, tabulated.
GrayCodes == [k \in 0..MaxN |-> GrayBs(k)]

\* generate_uniformly_controlled_circuit: the circuit UCC it returns.  One
\* elementary target operation per control bit-string, built from the
\* unitaries, with CNOTs on the control bits that change in between.
UCGate(index, unitaries, target_qubit) ==
    [kind |-> "UC", angle |-> 0, target |-> target_qubit, control |-> NoQubit,
     index |-> index, unitaries |-> unitaries, dagger |-> FALSE]
generate_uniformly_controlled_circuit(unitaries, control_qubits, target_qubit) ==
    LET bs == GrayCodes[Len(control_qubits)]
        N == Len(bs)
    IN  Flatten([p \in 1..N |->
           <<UCGate(p - 1, unitaries, target_qubit)>>
           \o (IF p < N THEN Cnots(bs[p], bs[p + 1], control_qubits, target_qubit)
               ELSE <<>>)])
\* The residual phase vectors R it may return with UCC, one phase per basis
\* state of the level.
ResidualPhases == {0, PiUnits \div 2}
ResidualChoices(n) == {[p \in 1..Pow2(n) |-> r] : r \in ResidualPhases}

\* Program.dagger() (line 33): the gates in reverse order, each inverted.
DaggerGate(g) ==
    CASE g.kind = "RY" -> [g EXCEPT !.angle = -g.angle]
      [] g.kind = "RZ" -> [g EXCEPT !.angle = -g.angle]
      [] g.kind = "UC" -> [g EXCEPT !.dagger = ~g.dagger]
      [] OTHER -> g
Dagger(prog) == [p \in 1..Len(prog) |-> DaggerGate(prog[Len(prog) + 1 - p])]

\* ------------------------------------------------------------------ inputs
\* list(range(n)) (line 109).
QubitList(n) == [i \in 1..n |-> i - 1]

\* The phase a qubit in state 1 may add to an amplitude.
KickAngle == (3 * PiUnits) \div 4
Kicks == {0, KickAngle}

\* The vector with, at every level pos, the fraction split[pos] / 4 of a
\* block's weight in its lower half (mirrored in the blocks of the last level
\* whose first qubit is 1 when twist), and with phase kick[pos] on qubit pos.
FamilyVector(n, split, kick, twist) ==
    [p \in 1..Pow2(n) |->
       LET idx == p - 1
           lower(pos) == IF twist /\ pos = n /\ BitOf(idx, 1, n) = 1
                         THEN 4 - split[pos] ELSE split[pos]
           w == ProdSeq([pos \in 1..n |->
                   IF BitOf(idx, pos, n) = 0 THEN lower(pos) ELSE 4 - lower(pos)])
           a == SumSeq([pos \in 1..n |-> BitOf(idx, pos, n) * kick[pos]])
       IN  Amp(w, IF w > 0 THEN Wrap(a) ELSE 0)]

NoKick(n) == [pos \in 1..n |-> 0]
Balanced(n) == [pos \in 1..n |-> 2]
\* Computational basis states.
BasisStates(n) == {FamilyVector(n, split, NoKick(n), FALSE) : split \in [1..n -> {0, 4}]}
\* Equal moduli, any phase kicks (the uniform superposition among them).
UniformStates(n) == {FamilyVector(n, Balanced(n), kick, FALSE) : kick \in [1..n -> Kicks]}
\* One level split unevenly; real when the split leaves a zero block.
SkewedStates(n) ==
    UNION {
      {FamilyVector(n, [Balanced(n) EXCEPT ![pos] = q], NoKick(n), FALSE) : q \in {0, 4}}
      \cup {FamilyVector(n, [Balanced(n) EXCEPT ![pos] = q], [i \in 1..n |-> k],
                         tw /\ pos = n /\ n >= 2) :
               q \in {1, 3}, k \in Kicks, tw \in BOOLEAN}
      : pos \in 1..n }
ValidStates(n) == BasisStates(n) \cup UniformStates(n) \cup SkewedStates(n)

\* Vectors of length 2^n whose norm is not 1: norm 0, norm 1/2, norm
\* 2^(-n/2) without zero entries, and norm sqrt(1 + 4^-n).
BadNormStates(n) ==
    {[p \in 1..Pow2(n) |-> Amp(0, 0)],
     [p \in 1..Pow2(n) |-> Amp(IF p = 1 THEN Pow4(n) + 1 ELSE 0, 0)]}
    \cup (IF n >= 1
          THEN {[p \in 1..Pow2(n) |-> Amp(IF p = 1 THEN Pow4(n - 1) ELSE 0, 0)],
                [p \in 1..Pow2(n) |-> Amp(1, 0)]}
          ELSE {})
\* Vectors whose length is not 2^n: length 3, and the balanced vectors of the
\* other qubit counts.
WrongLengthStates(n) ==
    {<<Amp(2, 0), Amp(1, 0), Amp(1, 0)>>}
    \cup {FamilyVector(m, Balanced(m), NoKick(m), FALSE) : m \in (0..MaxN) \ {n}}

CallInputs ==
    UNION {{<<v, QubitList(n)>> :
              v \in ValidStates(n) \cup BadNormStates(n) \cup WrongLengthStates(n)}
           : n \in 0..MaxN}

\* ------------------------------------------------------------------- state
VARIABLES
    alg,            \* the function the caller invoked: "none", "SBM", "BVMS", "PM"
    state,          \* the caller's amplitude vector
    qubits,         \* the caller's qubit list
    gray,           \* GRAY_CODE of the current call
    rev,            \* REVERSE_ZS of the current call
    pc,             \* "idle", "sbm_loop", "bvms", "done", "failed"
    level,          \* i of the loop of line 14
    program,        \* the program being built (line 11), the result once done
    outcome,        \* "none", "running", "ok", "AssertionError", "TypeError"
    raisedAt,       \* source line of the statement that raised, 0 if none
    stack,          \* call stack of Bergholm_Vartiainen_Mottonen_Salomaa
    last,           \* what the previous call returned to the caller
    states,         \* the states argument of the last prepare_multiplexed call
    control_qubits, \* its control_qubits argument
    target_qubit,   \* its target_qubit argument
    norms,          \* r of line 17 for each pair i, in units of 1e-9
    i_pair,         \* pairs the loop of line 15 has been through
    unitaries,      \* the list of line 14
    nullified_state,\* the array of line 13, in units of 1e-9
    divided         \* for each pair gone through, whether s / r was evaluated

\* The variables of the loop over the pairs (lines 13-22) run on its own.
pairVars == <<norms, i_pair, unitaries, nullified_state, divided>>
vars == <<alg, state, qubits, gray, rev, pc, level, program, outcome, raisedAt,
          stack, last, states, control_qubits, target_qubit, norms, i_pair,
          unitaries, nullified_state, divided>>
NoPairs ==
    /\ norms = <<>> /\ i_pair = 0 /\ unitaries = <<>>
    /\ nullified_state = <<>> /\ divided = <<>>

NoCall == [alg |-> "none", gray |-> FALSE, rev |-> FALSE, outcome |-> "none",
           raisedAt |-> 0, program |-> <<>>]
\* What the caller holds once the current call has ended: the returned
\* program, or the exception and nothing else.
Returned ==
    [alg |-> alg, gray |-> gray, rev |-> rev, outcome |-> outcome,
     raisedAt |-> raisedAt, program |-> IF outcome = "ok" THEN program ELSE <<>>]
AtRest == pc \in {"idle", "done", "failed"}
Remember == last' = IF pc = "idle" THEN last ELSE Returned

Init ==
    /\ \E inp \in CallInputs : state = inp[1] /\ qubits = inp[2]
    /\ alg = "none" /\ gray = FALSE /\ rev = FALSE
    /\ pc = "idle" /\ level = 0 /\ program = <<>>
    /\ outcome = "none" /\ raisedAt = 0
    /\ stack = <<>> /\ last = NoCall
    /\ states = <<>> /\ control_qubits = <<>> /\ target_qubit = NoQubit
    /\ NoPairs

Raise(kind, line) ==
    /\ pc' = "failed"
    /\ outcome' = kind
    /\ raisedAt' = line

\* Mutant: program a module-level object that line 11 does not renew.
SBM_Call_KeepsProgram(g, r) ==
    /\ AtRest
    /\ Remember
    /\ alg' = "SBM" /\ gray' = g /\ rev' = r
    /\ level' = 0 /\ stack' = <<>>
    /\ program' = IF alg = "SBM" /\ outcome = "ok" THEN program ELSE <<>>
    /\ IF ~SbmLengthOk(state, qubits) THEN Raise("AssertionError", 8)
       ELSE IF ~SbmNormOk(state, qubits) THEN Raise("AssertionError", 9)
       ELSE pc' = "sbm_loop" /\ outcome' = "running" /\ raisedAt' = 0
    /\ UNCHANGED <<state, qubits, states, control_qubits, target_qubit>>
    /\ UNCHANGED pairVars

\* Shende_Bullock_Markov, lines 7-13: the caller's call, the two assertions,
\* the empty program.
SBM_Call(g, r) ==
    /\ AtRest
    /\ Remember
    /\ alg' = "SBM" /\ gray' = g /\ rev' = r
    /\ level' = 0 /\ program' = <<>> /\ stack' = <<>>
    /\ IF ~SbmLengthOk(state, qubits) THEN Raise("AssertionError", 8)
       ELSE IF ~SbmNormOk(state, qubits) THEN Raise("AssertionError", 9)
       ELSE pc' = "sbm_loop" /\ outcome' = "running" /\ raisedAt' = 0
    /\ UNCHANGED <<state, qubits, states, control_qubits, target_qubit>>
    /\ UNCHANGED pairVars

\* One iteration of the loop of lines 14-21: the effective states of level
\* i, then prepare_multiplexed, whose assertions (lines 25-26) may raise
\* before the level's gates are appended.
SBM_Level ==
    /\ pc = "sbm_loop" /\ level < Len(qubits)
    /\ \E rnds \in LevelRoundings(state, Len(qubits), level) :
       LET n == Len(qubits)
           sts == LevelStates(state, n, level, rnds)
           ctl == SubSeq(qubits, 1, level)
           tgt == qubits[level + 1]
       IN  /\ states' = sts /\ control_qubits' = ctl /\ target_qubit' = tgt
           /\ IF ~PmLengthOk(sts, ctl)
              THEN Raise("AssertionError", 25) /\ UNCHANGED <<program, level>>
              ELSE IF ~PmNormsOk(sts)
              THEN Raise("AssertionError", 26) /\ UNCHANGED <<program, level>>
              ELSE /\ program' = program \o prepare_multiplexed(sts, ctl, tgt, gray, rev)
                   /\ level' = level + 1
                   /\ UNCHANGED <<pc, outcome, raisedAt>>
    /\ UNCHANGED <<alg, state, qubits, gray, rev, stack, last>>
    /\ UNCHANGED pairVars

\* Line 22.
SBM_Return ==
    /\ pc = "sbm_loop" /\ level = Len(qubits)
    /\ pc' = "done" /\ outcome' = "ok"
    /\ UNCHANGED <<alg, state, qubits, gray, rev, level, program, raisedAt, stack,
                   last, states, control_qubits, target_qubit>>
    /\ UNCHANGED pairVars

\* Bergholm_Vartiainen_Mottonen_Salomaa: a frame of the recursion.
Frame(st, qs) ==
    [state |-> st, qubits |-> qs, nullified |-> <<>>, UCC |-> <<>>,
     program |-> <<>>, at |-> "entry"]
Top == stack[Len(stack)]
SetTop(f) == [stack EXCEPT ![Len(stack)] = f]

\* The caller's call.
BVMS_Call ==
    /\ AtRest
    /\ Remember
    /\ alg' = "BVMS" /\ gray' = FALSE /\ rev' = FALSE
    /\ level' = 0 /\ program' = <<>>
    /\ stack' = <<Frame(state, qubits)>>
    /\ pc' = "bvms" /\ outcome' = "running" /\ raisedAt' = 0
    /\ UNCHANGED <<state, qubits, states, control_qubits, target_qubit>>
    /\ UNCHANGED pairVars

\* Lines 9-31 of the innermost invocation: the assertion, the pairs, the
\* uniformly controlled circuit, the phase correction, the empty program.
\* np.zeros(2**(n-1)) raises TypeError for n = 0, where 2**(n-1) is 0.5.
BVMS_Enter ==
    /\ pc = "bvms" /\ Top.at = "entry"
    /\ LET f == Top
           n == Len(f.qubits)
       IN  IF Len(f.state) # Pow2(n)
           THEN Raise("AssertionError", 9) /\ UNCHANGED stack
           ELSE IF n = 0
           THEN Raise("TypeError", 13) /\ UNCHANGED stack
           ELSE /\ \E R \in ResidualChoices(n) :
                     stack' = SetTop([f EXCEPT
                        !.nullified = PhaseCorrected(Nullified(f.state, n), R),
                        !.UCC = generate_uniformly_controlled_circuit(
                                    Unitaries(f.state, n),
                                    SubSeq(f.qubits, 1, n - 1), f.qubits[n]),
                        !.program = <<>>,
                        !.at = "merge"])
                /\ UNCHANGED <<pc, outcome, raisedAt>>
    /\ UNCHANGED <<alg, state, qubits, gray, rev, level, program, last, states,
                   control_qubits, target_qubit>>
    /\ UNCHANGED pairVars

\* Mutant: the recursive call made without the test n > 1.
BVMS_Recurse_Always ==
    /\ pc = "bvms" /\ Top.at = "merge"
    /\ stack' = Append(stack,
                       Frame(Top.nullified, SubSeq(Top.qubits, 1, Len(Top.qubits) - 1)))
    /\ level' = level + 1
    /\ UNCHANGED <<alg, state, qubits, gray, rev, pc, program, outcome, raisedAt,
                   last, states, control_qubits, target_qubit>>
    /\ UNCHANGED pairVars
\* Mutant: the recursive call made on the whole qubit list instead of
\* qubits[:-1].
BVMS_Recurse_WholeQubits ==
    /\ pc = "bvms" /\ Top.at = "merge" /\ Len(Top.qubits) > 1
    /\ stack' = Append(stack, Frame(Top.nullified, Top.qubits))
    /\ level' = level + 1
    /\ UNCHANGED <<alg, state, qubits, gray, rev, pc, program, outcome, raisedAt,
                   last, states, control_qubits, target_qubit>>
    /\ UNCHANGED pairVars
\* Line 32, the recursive call on the nullified state and qubits[:-1].
BVMS_Recurse ==
    /\ pc = "bvms" /\ Top.at = "merge" /\ Len(Top.qubits) > 1
    /\ stack' = Append(stack,
                       Frame(Top.nullified, SubSeq(Top.qubits, 1, Len(Top.qubits) - 1)))
    /\ level' = level + 1
    /\ UNCHANGED <<alg, state, qubits, gray, rev, pc, program, outcome, raisedAt,
                   last, states, control_qubits, target_qubit>>
    /\ UNCHANGED pairVars

\* Mutants: UCC.dagger() placed before the recursive call's gates; the
\* recursive call's gates dropped ("=" for "+=").
Merged_DaggerFirst(f) == Dagger(f.UCC) \o f.program
Merged_DaggerOnly(f) == Dagger(f.UCC)
\* What an invocation returns (lines 31-34): its program, which holds the
\* recursive call's gates if there was one, then UCC.dagger().
Merged(f) == f.program \o Dagger(f.UCC)

\* Lines 33-34, and the caller's "program +=" of line 32 when the caller is
\* the enclosing invocation.
BVMS_Return ==
    /\ pc = "bvms"
    /\ \/ Top.at = "merge" /\ Len(Top.qubits) = 1
       \/ Top.at = "back"
    /\ IF Len(stack) = 1
       THEN /\ program' = Merged(Top)
            /\ stack' = <<>>
            /\ pc' = "done" /\ outcome' = "ok"
       ELSE /\ LET caller == stack[Len(stack) - 1]
               IN  stack' = [SubSeq(stack, 1, Len(stack) - 1) EXCEPT
                               ![Len(stack) - 1] =
                                  [caller EXCEPT !.program = @ \o Merged(Top),
                                                 !.at = "back"]]
            /\ UNCHANGED <<program, pc, outcome>>
    /\ UNCHANGED <<alg, state, qubits, gray, rev, level, raisedAt, last, states,
                   control_qubits, target_qubit>>
    /\ UNCHANGED pairVars

Next ==
    \/ \E g \in BOOLEAN, r \in BOOLEAN : SBM_Call(g, r)
    \/ SBM_Level
    \/ SBM_Return
    \/ BVMS_Call
    \/ BVMS_Enter
    \/ BVMS_Recurse
    \/ BVMS_Return

Spec == Init /\ [][Next]_vars

\* Bergholm_Vartiainen_Mottonen_Salomaa alone, as a running Python call: a
\* call that has a next statement executes it.
NextTerm ==
    \/ BVMS_Call
    \/ BVMS_Enter
    \/ BVMS_Recurse
    \/ BVMS_Return
SpecTerm ==
    /\ Init /\ [][NextTerm]_vars
    /\ WF_vars(BVMS_Enter) /\ WF_vars(BVMS_Recurse) /\ WF_vars(BVMS_Return)

\* ------------------------------------ prepare_multiplexed called directly
EffChoices ==
    {EffState(4, 0, 0), EffState(2, 2, PiUnits \div 2), EffState(1, 3, -(PiUnits \div 4))}
\* States that fail the assertion of line 26: a norm of sqrt(1/2), and nan.
BadEffStates == {EffState(1, 1, 0), NanState}
\* Lists of 2^k states of which at most MaxOther differ from (1, 0).
SparseStates(k) ==
    {sts \in [1..Pow2(k) -> EffChoices] :
        Cardinality({p \in 1..Pow2(k) : sts[p] # EffState(4, 0, 0)}) <= MaxOther}
PmInputs ==
    UNION {
      {<<sts, QubitList(k), k>> : sts \in SparseStates(k)}
      \cup {<<[p \in 1..Pow2(k) |-> bad], QubitList(k), k>> : bad \in BadEffStates}
      \cup {<<[p \in 1..(Pow2(k) + 1) |-> EffState(4, 0, 0)], QubitList(k), k>>}
      : k \in 0..MaxK }

InitPM ==
    /\ \E inp \in PmInputs :
          states = inp[1] /\ control_qubits = inp[2] /\ target_qubit = inp[3]
    /\ alg = "none" /\ gray = FALSE /\ rev = FALSE
    /\ pc = "idle" /\ level = 0 /\ program = <<>>
    /\ outcome = "none" /\ raisedAt = 0
    /\ stack = <<>> /\ last = NoCall
    /\ state = <<>> /\ qubits = <<>>
    /\ NoPairs

\* prepare_multiplexed, lines 24-94, called by the caller itself.
PM_Call(g, r) ==
    /\ AtRest
    /\ Remember
    /\ alg' = "PM" /\ gray' = g /\ rev' = r
    /\ IF ~PmLengthOk(states, control_qubits)
       THEN Raise("AssertionError", 25) /\ program' = <<>>
       ELSE IF ~PmNormsOk(states)
       THEN Raise("AssertionError", 26) /\ program' = <<>>
       ELSE /\ program' = prepare_multiplexed(states, control_qubits, target_qubit, g, r)
            /\ pc' = "done" /\ outcome' = "ok" /\ raisedAt' = 0
    /\ UNCHANGED <<state, qubits, level, stack, states, control_qubits, target_qubit>>
    /\ UNCHANGED pairVars

NextPM == \E g \in BOOLEAN, r \in BOOLEAN : PM_Call(g, r)

SpecPM == InitPM /\ [][NextPM]_vars

\* --------------------------------- the loop over the pairs (lines 13-22)
\* Norms of pairs around the threshold, which the 1 / 4^n grid of the
\* amplitudes does not reach.  Unit: 1e-9.
Threshold9 == 10
OrdinaryNorm == 10 ^ 9
NormChoices == {0, Threshold9 - 1, Threshold9, Threshold9 + 1, OrdinaryNorm}
\* Mutant: the test of line 22 with >= for >.
ExceedsThreshold_Inclusive(r) == r >= Threshold9
\* r > 1e-8 (line 22).
ExceedsThreshold(r) == r > Threshold9
\* Lists of 2^k norms of which at most MaxOther are not ordinary.
SparseNorms(k) ==
    {rs \in [1..Pow2(k) -> NormChoices] :
        Cardinality({p \in 1..Pow2(k) : rs[p] # OrdinaryNorm}) <= MaxOther}

InitPairs ==
    /\ \E k \in 0..MaxK : \E rs \in SparseNorms(k) :
          /\ norms = rs
          /\ nullified_state = [p \in 1..Pow2(k) |-> 0]
    /\ i_pair = 0 /\ unitaries = <<>> /\ divided = <<>>
    /\ alg = "none" /\ gray = FALSE /\ rev = FALSE
    /\ pc = "idle" /\ level = 0 /\ program = <<>>
    /\ outcome = "none" /\ raisedAt = 0
    /\ stack = <<>> /\ last = NoCall
    /\ state = <<>> /\ qubits = <<>>
    /\ states = <<>> /\ control_qubits = <<>> /\ target_qubit = NoQubit

\* One iteration of the loop of lines 15-22.  The conditional expression of
\* lines 19-22 evaluates its test first and then one of its two operands.
BVMS_Pair ==
    /\ i_pair < Len(norms)
    /\ LET r == norms[i_pair + 1]
       IN  /\ nullified_state' = [nullified_state EXCEPT ![i_pair + 1] = r]
           /\ IF ExceedsThreshold(r)
              THEN unitaries' = Append(unitaries, "from_pair")
                   /\ divided' = Append(divided, TRUE)
              ELSE unitaries' = Append(unitaries, "eye")
                   /\ divided' = Append(divided, FALSE)
    /\ i_pair' = i_pair + 1
    /\ UNCHANGED <<alg, state, qubits, gray, rev, pc, level, program, outcome,
                   raisedAt, stack, last, states, control_qubits, target_qubit,
                   norms>>

NextPairs == BVMS_Pair
SpecPairs == InitPairs /\ [][NextPairs]_vars

\* ================================================================== claims
Finished == pc \in {"done", "failed"}
Synthesizer == alg \in {"SBM", "BVMS"}
IsPowerOfTwo(len) == \E k \in 0..len : len = Pow2(k)
\* The spec's InvalidStateError: an assertion on the arguments at the entry of
\* the synthesizer (lines 8-9 of the one, line 9 of the other).
InvalidStateError ==
    /\ pc = "failed" /\ outcome = "AssertionError"
    /\ \/ alg = "SBM" /\ raisedAt \in {8, 9}
       \/ alg = "BVMS" /\ raisedAt = 9
IsBasisState(v, n) ==
    /\ Len(v) = Pow2(n)
    /\ \E p \in 1..Len(v) :
          /\ v[p] = Amp(Pow4(n), 0)
          /\ \A q \in (1..Len(v)) \ {p} : v[q] = Amp(0, 0)
\* The gates the program being built holds: the program of line 11, and the
\* programs (line 31) of the invocations on the stack.
NoGateAppended ==
    /\ program = <<>>
    /\ \A d \in 1..Len(stack) : stack[d].program = <<>>
EndsWith(prog, suffix) ==
    /\ Len(prog) >= Len(suffix)
    /\ SubSeq(prog, Len(prog) - Len(suffix) + 1, Len(prog)) = suffix
StartsWith(prog, prefix) ==
    /\ Len(prog) >= Len(prefix)
    /\ SubSeq(prog, 1, Len(prefix)) = prefix
\* UCC of an invocation on vector v and qubit list qs (line 25).
LevelUCC(v, qs) ==
    generate_uniformly_controlled_circuit(
        Unitaries(v, Len(qs)), SubSeq(qs, 1, Len(qs) - 1), qs[Len(qs)])
\* Both orderings were run on this input with the same REVERSE_ZS: the
\* previous call and the current one, in either order.
GrayLen == IF gray THEN Len(program) ELSE Len(last.program)
NaturalLen == IF gray THEN Len(last.program) ELSE Len(program)
BothOrderingsRun ==
    /\ pc = "done" /\ alg = "SBM"
    /\ last.alg = "SBM" /\ last.outcome = "ok"
    /\ last.rev = rev /\ last.gray # gray
\* Net rotation angles prepare_multiplexed's program applies to the target
\* when the controls hold assignment c (0 .. 2^k - 1, control_qubits[0] the
\* most significant bit).
PmQubits == control_qubits \o <<target_qubit>>
PmNet(prog, c) == NetRotation(prog, PmQubits, Len(PmQubits), 2 * c)

\* The first nonzero entry of a vector (entry 1 of the zero vector).
FirstNonzeroEntry(v) ==
    IF \E p \in 1..Len(v) : v[p].w > 0
    THEN CHOOSE p \in 1..Len(v) : v[p].w > 0 /\ \A q \in 1..(p - 1) : v[q].w = 0
    ELSE 1
\* v and the statevector e agree once each is divided by the phase of its
\* first nonzero entry.
SameUpToPhase(v, e) ==
    /\ Len(v) = Len(e)
    /\ \A p \in 1..Len(v) : v[p].w = e[p].w
    /\ LET f == FirstNonzeroEntry(v)
       IN  \A p \in 1..Len(v) :
             v[p].w > 0 =>
               (2 * (v[p].a - v[f].a) - (e[p].d - e[f].d)) % (4 * PiUnits) = 0
\* The comparison of lines 117-127 succeeds whichever angle np.angle(psi[0])
\* yields.
AlwaysReproduces ==
    \A ref \in ReferencePhases(Executed(program, qubits)) :
        Reproduces(program, qubits, state, ref)

\* C1: for every unit-norm vector on n >= 1 qubits, the gate sequence a
\* synthesizer returns, run from the all-zero state, yields the vector once
\* both are normalized by the phase of their first nonzero entry.  Stated
\* for the synthesizer whose gates (RY, RZ, CNOT) the executor defines.
C1_RoundTrip ==
    (pc = "done" /\ alg = "SBM" /\ outcome = "ok" /\ Len(qubits) >= 1)
        => /\ Executable(program, qubits)
           /\ SameUpToPhase(state, Executed(program, qubits))

\* C2: on every computational basis state both synthesizers complete without
\* raising, and the Shende_Bullock_Markov sequence reproduces the state.
C2_BasisStatesSynthesize ==
    (Finished /\ Synthesizer /\ Len(qubits) >= 1 /\ IsBasisState(state, Len(qubits)))
        => /\ outcome = "ok"
           /\ alg = "SBM" => AlwaysReproduces

\* C3 as claimed: both synthesizers reject a vector of length 2^n whose norm
\* is not 1 with InvalidStateError.
C3_BothRejectBadNorm ==
    (Finished /\ Synthesizer /\ Len(qubits) >= 1
        /\ Len(state) = Pow2(Len(qubits))
        /\ NormSq(state) > 0 /\ NormSq(state) # Pow4(Len(qubits)))
        => InvalidStateError
\* C3 amended: Shende_Bullock_Markov rejects a vector of length 2^n whose norm
\* is not 1 with InvalidStateError (line 9) before building anything;
\* Bergholm_Vartiainen_Mottonen_Salomaa checks no norm and, for n >= 1,
\* returns a gate sequence for it.
C3_OnlySbmRejectsBadNorm ==
    (Finished /\ Len(state) = Pow2(Len(qubits)) /\ NormSq(state) # Pow4(Len(qubits)))
        => /\ alg = "SBM" => (InvalidStateError /\ raisedAt = 9 /\ NoGateAppended)
           /\ (alg = "BVMS" /\ Len(qubits) >= 1) => (outcome = "ok" /\ program # <<>>)
C3_Witness ==
    /\ pc = "failed" /\ alg = "SBM" /\ raisedAt = 9
    /\ Len(state) = 4 /\ NormSq(state) = 4
    /\ last.alg = "BVMS" /\ last.outcome = "ok"

\* C4: a vector whose length is not a power of two is rejected with
\* InvalidStateError by both synthesizers whatever the qubit list: the call
\* never gets past its entry and returns no gate sequence.
C4_WrongLengthRejected ==
    ~IsPowerOfTwo(Len(state))
        => /\ pc \in {"idle", "bvms", "failed"}
           /\ pc = "bvms" => (Len(stack) = 1 /\ Top.at = "entry")
           /\ pc = "failed" => (InvalidStateError /\ Returned.program = <<>>)
           /\ NoGateAppended
C4_Witness ==
    /\ Len(state) = 3 /\ Len(qubits) = 1
    /\ pc = "failed" /\ alg = "BVMS" /\ InvalidStateError
    /\ last.alg = "SBM" /\ last.outcome = "AssertionError" /\ last.raisedAt = 8

\* C5: a synthesizer call that fails has appended no gate to the program it
\* was building.
C5_NoGateBeforeFailure ==
    (pc = "failed" /\ Synthesizer) => NoGateAppended

\* C6: for the same states (thetas, phis), the programs prepare_multiplexed
\* returns under any two settings of (GRAY_CODE, REVERSE_ZS) apply the same net
\* RY angle and the same net RZ angle to the target for every assignment of
\* the controls, and leave the target unflipped.
C6_SameMultiplexedOperation ==
    (pc = "done" /\ alg = "PM" /\ last.alg = "PM" /\ last.outcome = "ok")
        => \A c \in 0..(Pow2(Len(control_qubits)) - 1) :
              LET now == PmNet(program, c)
                  before == PmNet(last.program, c)
              IN  /\ now.ok /\ before.ok
                  /\ now.flip = 0 /\ before.flip = 0
                  /\ now.theta = before.theta
                  /\ now.phi = before.phi
C6_Witness ==
    /\ pc = "done" /\ alg = "PM" /\ last.alg = "PM" /\ last.outcome = "ok"
    /\ Len(control_qubits) = 2
    /\ gray /\ rev /\ ~last.gray /\ ~last.rev
    /\ states[3] # states[4] /\ states[3] # EffState(4, 0, 0)
    /\ program # last.program

\* C7: with the same input and the same REVERSE_ZS, Shende_Bullock_Markov
\* emits no more gates with Gray-code ordering than with natural ordering.
C7_GrayNeverMoreGates ==
    BothOrderingsRun => GrayLen <= NaturalLen
C7_Witness ==
    /\ BothOrderingsRun /\ ~rev /\ gray
    /\ Len(qubits) = 3
    /\ GrayLen = 26 /\ NaturalLen = 30

\* C8 as claimed: for every n >= 1 Gray-code ordering emits strictly fewer
\* gates than natural ordering.
C8_GrayStrictlyFewer ==
    (BothOrderingsRun /\ Len(qubits) >= 1) => GrayLen < NaturalLen
\* C8 amended: with the same REVERSE_ZS, Gray-code ordering emits strictly
\* fewer gates than natural ordering for n >= 3 qubits, and exactly as many
\* for n <= 2.
C8_GrayFewerFromThreeQubits ==
    BothOrderingsRun
        => /\ Len(qubits) >= 3 => GrayLen < NaturalLen
           /\ Len(qubits) <= 2 => GrayLen = NaturalLen
C8_Witness ==
    /\ BothOrderingsRun /\ rev /\ ~gray
    /\ Len(qubits) = 3
    /\ GrayLen = 22 /\ NaturalLen = 24

\* C9: the sequence an invocation of Bergholm_Vartiainen_Mottonen_Salomaa
\* returns is the sequence of the recursive call followed by the dagger of the
\* invocation's own UCC; over all levels the daggered UCC blocks come in the
\* order of their targets qubits[0], ..., qubits[n-1].
C9_RecursionThenDagger ==
    /\ \A d \in 1..Len(stack) :
          LET f == stack[d]
              m == Len(f.qubits)
          IN  f.at = "back" =>
                /\ m > 1
                /\ EndsWith(f.program,
                            Dagger(LevelUCC(f.nullified, SubSeq(f.qubits, 1, m - 1))))
                /\ InTargetOrder(f.program, SubSeq(f.qubits, 1, m - 1))
    /\ (pc = "done" /\ alg = "BVMS") =>
          LET tail == Dagger(LevelUCC(state, qubits))
              head == SubSeq(program, 1, Len(program) - Len(tail))
          IN  /\ EndsWith(program, tail)
              /\ InTargetOrder(head, SubSeq(qubits, 1, Len(qubits) - 1))
              /\ InTargetOrder(program, qubits)
              /\ \A pos \in 1..Len(qubits) : GatesOn(program, qubits[pos]) # <<>>
              /\ \A p \in 1..Len(program) :
                    program[p].kind = "UC" => program[p].dagger
C9_Witness ==
    /\ pc = "done" /\ alg = "BVMS" /\ Len(qubits) = 3
    /\ program[1].target = qubits[1]
    /\ program[Len(program)].target = qubits[3]

\* C10 as claimed: in the returned sequence the gates of the recursively
\* solved sub-problem come after the inverse of the current level's UCC.
C10_SubProblemAfterDagger ==
    (pc = "done" /\ alg = "BVMS" /\ Len(qubits) >= 2)
        => StartsWith(program, Dagger(LevelUCC(state, qubits)))
\* C10 amended: in the returned sequence the gates of the recursively solved
\* sub-problem come before the inverse of the current level's UCC, which
\* is appended to them last.
C10_SubProblemBeforeDagger ==
    /\ \A d \in 1..Len(stack) :
          LET f == stack[d]
          IN  f.at = "back" =>
                /\ f.program # <<>>
                /\ GatesOn(f.program, f.qubits[Len(f.qubits)]) = <<>>
    /\ (pc = "done" /\ alg = "BVMS" /\ Len(qubits) >= 2) =>
          /\ \E p \in 1..Len(program) : program[p].target # qubits[Len(qubits)]
          /\ \A p \in 1..Len(program), q \in 1..Len(program) :
                (program[p].target # qubits[Len(qubits)]
                    /\ program[q].target = qubits[Len(qubits)]) => p < q
C10_Witness ==
    /\ pc = "bvms" /\ Len(stack) = 2
    /\ stack[1].at = "merge" /\ stack[2].at = "back"
    /\ Len(stack[2].program) > 0

\* Invocations of Bergholm_Vartiainen_Mottonen_Salomaa started by the current
\* call: the caller's, and one per recursive call of line 32.
Invocations == level + 1
RunsBVMS == alg = "BVMS" /\ Len(qubits) >= 1 /\ Len(state) = Pow2(Len(qubits))
NestedByOne ==
    RunsBVMS =>
      /\ Len(stack) <= Invocations /\ Invocations <= Len(qubits)
      /\ (pc = "bvms" /\ Top.at = "entry") => Invocations = Len(stack)
      /\ \A d \in 1..Len(stack) :
            LET m == Len(qubits) - d + 1
            IN  /\ stack[d].qubits = SubSeq(qubits, 1, m)
                /\ Len(stack[d].state) = Pow2(m)
                /\ (m = 1) => stack[d].at # "back"
                /\ (d < Len(stack)) => stack[d].at = "merge"
      /\ pc = "done" => Invocations = Len(qubits)
      /\ pc # "failed"

\* C11: for n >= 1 a call of Bergholm_Vartiainen_Mottonen_Salomaa on a vector
\* of length 2^n nests its invocations with qubit counts n, n-1, ..., 1, each
\* recursive call receiving the caller's qubits but the last, the 1-qubit
\* invocation making no recursive call, and the call returns after exactly n
\* invocations.
C11_TerminatesAfterNInvocations ==
    /\ []NestedByOne
    /\ (pc = "bvms" /\ RunsBVMS) ~> (pc = "done" /\ Invocations = Len(qubits))
C11_Witness ==
    /\ pc = "done" /\ RunsBVMS /\ Len(qubits) = 3 /\ Invocations = 3

\* A step leaves the caller's arguments as they were, and leaves every
\* invocation on the stack its own arguments and, once computed, the
\* nullified state it hands to its recursive call.
ArgumentsUntouched ==
    /\ state' = state /\ qubits' = qubits
    /\ \A d \in 1..Min2(Len(stack), Len(stack')) :
          /\ stack'[d].state = stack[d].state
          /\ stack'[d].qubits = stack[d].qubits
          /\ stack[d].at # "entry" => stack'[d].nullified = stack[d].nullified
    /\ (Len(stack') > Len(stack) /\ Len(stack) > 0) =>
          /\ stack'[Len(stack')].state = stack[Len(stack)].nullified
          /\ stack'[Len(stack')].program = <<>>
\* A call starts from nothing but its arguments.
StartsAfresh ==
    /\ (pc = "sbm_loop" /\ level = 0) => program = <<>>
    /\ (pc = "bvms" /\ level = 0 /\ Len(stack) = 1 /\ stack[1].at = "entry") =>
          (program = <<>> /\ stack[1] = Frame(state, qubits))
\* Shende_Bullock_Markov called twice in a row with the same arguments and
\* options returns the same program.
SameCallSameResult ==
    (pc = "done" /\ alg = "SBM" /\ last.alg = "SBM" /\ last.outcome = "ok"
        /\ last.gray = gray /\ last.rev = rev)
        => program = last.program

\* C12: no step of Shende_Bullock_Markov, prepare_multiplexed or
\* Bergholm_Vartiainen_Mottonen_Salomaa changes the caller's amplitude vector
\* or qubit list (nor the arguments of an enclosing invocation), every call
\* starts from an empty program, and a call's result does not depend on the
\* calls made before it.
C12_NoSideEffects ==
    /\ [][ArgumentsUntouched]_vars
    /\ [](StartsAfresh /\ SameCallSameResult)
C12_Witness ==
    /\ pc = "done" /\ alg = "SBM" /\ last.alg = "SBM" /\ last.outcome = "ok"
    /\ last.gray = gray /\ last.rev = rev
    /\ Len(qubits) = 2 /\ Len(program) = 8

\* The angles of the gates of one kind, in program order.
AnglesOf(prog, kind) ==
    LET gs == SelectSeq(prog, LAMBDA g : g.kind = kind)
    IN  [p \in 1..Len(gs) |-> gs[p].angle]
\* popcount(b AND d) over the k control bits.
PopcountAnd(b, d, k) == Cardinality({i \in 1..k : b[i] = 1 /\ d[i] = 1})
\* (1 / 2^k) * sum over j of (-1)^popcount(b AND d_j) * vals[j], d_j the k-bit
\* string of decimal value j; gate angles carry the factor pi.
ClaimedAngle(b, vals, k) ==
    SumSeq([p \in 1..Pow2(k) |->
              MinusOneTo(PopcountAnd(b, BinaryDigits(p - 1, k), k)) * vals[p]])
        \div Pow2(k)
PmDone == pc = "done" /\ alg = "PM"

\* C13: every RY (RZ) prepare_multiplexed emits for bit-string b has the
\* angle pi / 2^k * sum_j (-1)^popcount(b AND d_j) * thetas[j] (phis[j]), d_j
\* the bit-string of decimal value j, in both branches and both orderings; the
\* RYs follow the bit-string list forward, the RZs forward or, with
\* REVERSE_ZS, backward.  The final RY of the REVERSE_ZS branch included.
C13_AnglesAreSignedSums ==
    PmDone =>
      LET k == Len(control_qubits)
          bs == BitStrings(k, gray)
          N == Len(bs)
          ry == AnglesOf(program, "RY")
          rz == AnglesOf(program, "RZ")
      IN  /\ Len(ry) = N /\ Len(rz) = N
          /\ \A p \in 1..N :
                /\ ry[p] = ClaimedAngle(bs[p], Thetas(states), k)
                /\ rz[p] = ClaimedAngle(bs[IF rev THEN N + 1 - p ELSE p],
                                        Phis(states), k)
C13_Witness ==
    /\ PmDone /\ gray /\ rev /\ Len(control_qubits) = 2
    /\ Thetas(states)[3] # Thetas(states)[4]
    /\ AnglesOf(program, "RY")[4] # 0

\* C14: for each pair gone through, s / r was evaluated exactly when
\* r > 1e-8; for r <= 1e-8 (r = 1e-8 and r = 0 among them) the unitary is the
\* identity; and the nullified amplitude of the pair is r either way, the
\* pairs not yet reached still holding the zero of line 13.
C14_DivisionOnlyAboveThreshold ==
    /\ Len(unitaries) = i_pair /\ Len(divided) = i_pair
    /\ Len(nullified_state) = Len(norms)
    /\ \A p \in 1..Len(norms) :
          IF p <= i_pair
          THEN /\ divided[p] <=> (norms[p] > Threshold9)
               /\ (unitaries[p] = "eye") <=> (norms[p] <= Threshold9)
               /\ nullified_state[p] = norms[p]
          ELSE nullified_state[p] = 0
C14_Witness ==
    /\ Len(norms) = 4 /\ i_pair = 4
    /\ norms[1] = Threshold9 /\ norms[2] = 0 /\ norms[3] = OrdinaryNorm
    /\ unitaries = <<"eye", "eye", "from_pair", "from_pair">>
    /\ nullified_state[1] = Threshold9

\* A gate a level with target tgt and controls ctl may emit: a rotation of
\* tgt, or a CNOT of tgt controlled on one of ctl.
GateOfLevel(g, ctl, tgt) ==
    /\ g.target = tgt
    /\ \/ g.kind \in {"RY", "RZ"} /\ g.control = NoQubit
       \/ g.kind = "CNOT" /\ \E j \in 1..Len(ctl) : g.control = ctl[j]
SbmRuns == alg = "SBM" /\ pc \in {"sbm_loop", "done", "failed"} /\ raisedAt \notin {8, 9}
\* What holds after the levels 0 .. level - 1.
LevelsSoFar ==
    SbmRuns =>
      /\ stack = <<>>
      /\ level <= Len(qubits)
      /\ InTargetOrder(program, qubits)
      /\ \A p \in 1..Len(program) :
            \E i \in 1..level :
               GateOfLevel(program[p], SubSeq(qubits, 1, i - 1), qubits[i])
      /\ \A i \in 1..level : GatesOn(program, qubits[i]) # <<>>
      /\ (level >= 1 \/ pc = "failed") =>
            LET i == IF pc = "failed" THEN level ELSE level - 1
            IN  /\ Len(states) = Pow2(i)
                /\ control_qubits = SubSeq(qubits, 1, i)
                /\ target_qubit = qubits[i + 1]
\* A level appends its gates to the program and changes nothing before them.
LevelAppends ==
    (alg = "SBM" /\ pc = "sbm_loop" /\ level' = level + 1) =>
      /\ Len(program') > Len(program)
      /\ SubSeq(program', 1, Len(program)) = program
      /\ \A p \in (Len(program) + 1)..Len(program') :
            GateOfLevel(program'[p], SubSeq(qubits, 1, level), qubits[level + 1])

\* C15: Shende_Bullock_Markov emits its gates level by level, i = 0 .. n-1 in
\* ascending order and without recursion; level i is built from 2^i
\* effective states; its rotations target qubits[i] and its CNOTs target
\* qubits[i] with a control among qubits[0..i-1], so that no gate of level i
\* touches qubits[i+1..n-1].
C15_LevelByLevel ==
    /\ []LevelsSoFar
    /\ [][LevelAppends]_vars
C15_Witness ==
    /\ alg = "SBM" /\ pc = "sbm_loop" /\ Len(qubits) = 3 /\ level = 2
    /\ Len(states) = 2
    /\ \E p \in 1..Len(program) :
          program[p].kind = "CNOT" /\ program[p].target = qubits[2]

\* Positions of the rotations in a program, ascending.
RotPositions(prog) ==
    SelectSeq([p \in 1..Len(prog) |-> p], LAMBDA p : prog[p].kind \in {"RY", "RZ"})
\* The bit-string of the q-th rotation of prepare_multiplexed's program: the
\* list forward for the RYs, then forward or (REVERSE_ZS) backward for the RZs.
PmBs == BitStrings(Len(control_qubits), gray)
BitStringOf(q) ==
    LET N == Len(PmBs)
    IN  IF q <= N THEN PmBs[q]
        ELSE IF rev THEN PmBs[2 * N + 1 - q] ELSE PmBs[q - N]
\* One CNOT on the target per position j where b and c differ, controlled on
\* control_qubits[j], j ascending.
ClaimedCnots(b, c) ==
    LET js == SelectSeq([j \in 1..Len(control_qubits) |-> j], LAMBDA j : b[j] # c[j])
    IN  [i \in 1..Len(js) |-> CNOT(control_qubits[js[i]], target_qubit)]
\* Each pass has 2^k rotations of the target, the RYs before the RZs.
TwoPasses(rot) ==
    LET N == Pow2(Len(control_qubits))
    IN  /\ Len(rot) = 2 * N /\ Len(PmBs) = N
        /\ \A q \in 1..(2 * N) :
              /\ program[rot[q]].kind = (IF q <= N THEN "RY" ELSE "RZ")
              /\ program[rot[q]].target = target_qubit
\* The gates after the q-th rotation and before the next one (or the end).
AfterRotation(rot, q) ==
    SubSeq(program, rot[q] + 1,
           IF q < Len(rot) THEN rot[q + 1] - 1 ELSE Len(program))

\* C16 as claimed: each pass emits 2^k rotations, the CNOTs between two
\* successive rotations are those of the positions where their bit-strings
\* differ, and the program holds no other CNOT.
C16_NoOtherCnot ==
    PmDone =>
      LET rot == RotPositions(program)
      IN  /\ TwoPasses(rot)
          /\ rot[1] = 1 /\ rot[Len(rot)] = Len(program)
          /\ \A q \in 1..(Len(rot) - 1) :
                AfterRotation(rot, q) = ClaimedCnots(BitStringOf(q), BitStringOf(q + 1))
\* C16 amended: each pass emits 2^k rotations; within a pass the CNOTs
\* between two successive rotations are those of the positions where their
\* bit-strings differ; without REVERSE_ZS each pass moreover ends, after its
\* last rotation, with the CNOTs of the transition from the last bit-string
\* back to the first; with REVERSE_ZS nothing follows the last RY or the
\* last RZ.  No CNOT precedes the first rotation.
C16_CnotsOfTransitions ==
    PmDone =>
      LET rot == RotPositions(program)
          N == Len(PmBs)
      IN  /\ TwoPasses(rot)
          /\ rot[1] = 1
          /\ \A q \in 1..(2 * N) :
                AfterRotation(rot, q) =
                  IF q \in {N, 2 * N}
                  THEN (IF rev THEN <<>> ELSE ClaimedCnots(PmBs[N], PmBs[1]))
                  ELSE ClaimedCnots(BitStringOf(q), BitStringOf(q + 1))
C16_Witness ==
    /\ PmDone /\ ~rev /\ ~gray /\ Len(control_qubits) = 2
    /\ Len(program) = 20
    /\ program[Len(program)].kind = "CNOT"
    /\ program[Len(program) - 1].kind = "CNOT"

\* The control assignment a bit-string denotes: its first k bits (the Gray
\* code strings of lines 34-37 carry one more bit, always 0).
ControlBits(b) == SubSeq(b, 1, Len(control_qubits))
\* Number of positions where two bit-strings of the same length differ.
Hamming(b, c) == Cardinality({j \in 1..Len(b) : b[j] # c[j]})
CnotCount(prog) == Len(SelectSeq(prog, LAMBDA g : g.kind = "CNOT"))

\* C17: with Gray-code ordering and k >= 1 controls the list of bit-strings
\* has 2^k entries, starts at all zeros, holds every k-bit control
\* assignment exactly once, and successive strings, the last and the first
\* too, differ in exactly one bit; every transition the program makes
\* between two rotations of a pass, or to close a pass, emits exactly one CNOT.
C17_GrayCodeOneBitPerStep ==
    (PmDone /\ gray /\ Len(control_qubits) >= 1) =>
      LET k == Len(control_qubits)
          N == Len(PmBs)
          rot == RotPositions(program)
      IN  /\ N = Pow2(k)
          /\ \A j \in 1..Len(PmBs[1]) : PmBs[1][j] = 0
          /\ {ControlBits(PmBs[p]) : p \in 1..N} = [1..k -> {0, 1}]
          /\ \A p \in 1..N, q \in 1..N :
                ControlBits(PmBs[p]) = ControlBits(PmBs[q]) => p = q
          /\ \A p \in 1..N :
                /\ Len(PmBs[p]) = Len(PmBs[1])
                /\ Hamming(PmBs[p], PmBs[(p % N) + 1]) = 1
                /\ Hamming(ControlBits(PmBs[p]), ControlBits(PmBs[(p % N) + 1])) = 1
          /\ \A q \in 1..Len(rot) :
                Len(AfterRotation(rot, q)) = (IF rev /\ q \in {N, 2 * N} THEN 0 ELSE 1)
          /\ CnotCount(program) = (IF rev THEN 2 * (N - 1) ELSE 2 * N)
C17_Witness ==
    /\ PmDone /\ gray /\ ~rev /\ Len(control_qubits) = 2
    /\ CnotCount(program) = 8 /\ Len(program) = 16
    /\ PmBs[3] = <<1, 1, 0>> /\ PmBs[4] = <<1, 0, 0>>

\* Decimal value of a bit-string, its first bit the most significant.
Decimal(b) == SumSeq([j \in 1..Len(b) |-> b[j] * Pow2(Len(b) - j)])
PmNums == Nums(Len(control_qubits), gray)

\* nums is a permutation of 0 .. 2^k - 1, and nums[p] is the decimal value
\* of the control assignment of bs[p], the bit of control_qubits[0] the most
\* significant.
NumsAreDecimalValues ==
    LET N == Pow2(Len(control_qubits))
    IN  /\ Len(PmNums) = N /\ Len(PmBs) = N
        /\ {PmNums[p] : p \in 1..N} = 0..(N - 1)
        /\ \A p \in 1..N : PmNums[p] = Decimal(ControlBits(PmBs[p]))
\* The index list idx pairs every bit-string of the list with the entry of
\* the control assignment the bit-string denotes.
IndexedByAssignment(idx) ==
    /\ Len(idx) = Len(PmBs)
    /\ \A j \in 1..Len(PmBs) : idx[j] = Decimal(ControlBits(PmBs[j]))
\* The p-th RY is the final RY of the REVERSE_ZS branch.
FinalRyOfReverse(p) == rev /\ p = Len(PmBs)

\* C18 as claimed: in both orderings nums is a permutation of 0 .. 2^k - 1
\* whose entry p is the decimal value of bs[p], and every sum of every
\* rotation indexes thetas and phis by the control assignment the bit-string
\* denotes.
C18_AlwaysIndexedByAssignment ==
    PmDone =>
      /\ NumsAreDecimalValues
      /\ \A p \in 1..Len(PmBs) :
            /\ IndexedByAssignment(ThetaIndex(PmBs, PmNums, rev, p))
            /\ IndexedByAssignment(PhiIndex(PmBs, PmNums, rev, p))
\* C18, corrected: nums is a permutation of 0 .. 2^k - 1 whose entry p is the
\* decimal value of bs[p]; every RZ and every RY but the final RY of the
\* REVERSE_ZS branch indexes phis and thetas by the control assignment the
\* bit-string denotes; that final RY indexes thetas by the position in the
\* list, which names another assignment under Gray ordering from two
\* controls on, and its angle is the one indexing by nums gives.
C18_IndexedByAssignmentButFinalRy ==
    PmDone =>
      LET N == Len(PmBs)
          k == Len(control_qubits)
      IN  /\ NumsAreDecimalValues
          /\ \A p \in 1..N :
                /\ IndexedByAssignment(PhiIndex(PmBs, PmNums, rev, p))
                /\ ~FinalRyOfReverse(p) =>
                      IndexedByAssignment(ThetaIndex(PmBs, PmNums, rev, p))
                /\ FinalRyOfReverse(p) =>
                      /\ ThetaIndex(PmBs, PmNums, rev, p) = Positions(PmBs)
                      /\ IndexedByAssignment(Positions(PmBs)) <=> (~gray \/ k <= 1)
                      /\ AnglesOf(program, "RY")[N] =
                            WalshAngle(PmBs[N], Thetas(states), PmNums, PmBs, k)
C18_Witness ==
    /\ PmDone /\ gray /\ rev /\ Len(control_qubits) = 2
    /\ PmNums = <<0, 1, 3, 2>>
    /\ ThetaIndex(PmBs, PmNums, rev, 4) = <<0, 1, 2, 3>>
    /\ Thetas(states)[3] # Thetas(states)[4]

\* The gates between the last RY and the first RZ.
BetweenPasses ==
    AfterRotation(RotPositions(program), Pow2(Len(control_qubits)))

\* C19 as claimed: the natural order emits reset CNOTs between the last RY
\* and the first RZ, the Gray-code order emits none there.
C19_ResetCnotsByOrdering ==
    (PmDone /\ Len(control_qubits) >= 1) =>
        IF gray THEN BetweenPasses = <<>> ELSE BetweenPasses # <<>>
\* C19 amended: whether CNOTs stand between the last RY and the first RZ is
\* decided by REVERSE_ZS, not by the ordering.  Without REVERSE_ZS both
\* orderings emit there the CNOTs of the transition from the last bit-string
\* back to the first (one with Gray code, k in natural order); with
\* REVERSE_ZS neither ordering emits a CNOT there.
C19_ResetCnotsByReverseZs ==
    (PmDone /\ Len(control_qubits) >= 1) =>
        IF rev THEN BetweenPasses = <<>>
        ELSE /\ BetweenPasses = ClaimedCnots(PmBs[Len(PmBs)], PmBs[1])
             /\ Len(BetweenPasses) = (IF gray THEN 1 ELSE Len(control_qubits))
C19_Witness ==
    /\ PmDone /\ Len(control_qubits) = 2
    /\ gray /\ ~rev /\ Len(BetweenPasses) = 1
    /\ last.alg = "PM" /\ last.outcome = "ok" /\ ~last.gray /\ last.rev
    /\ Len(last.program) = 16

\* C20: with REVERSE_ZS the RZ pass walks the bit-string list backward: the
\* first RZ follows the final RY at once and has the angle of the last
\* bit-string; the m-th RZ after it is preceded by the CNOTs of the
\* transition from bs[N-m+1] to bs[N-m] and has the angle of bs[N-m]; the
\* last RZ has the angle of the all-zero bit-string and ends the program.
C20_RzPassWalksBackward ==
    (PmDone /\ rev) =>
      LET k == Len(control_qubits)
          N == Len(PmBs)
          rot == RotPositions(program)
          phis == Phis(states)
      IN  /\ TwoPasses(rot)
          /\ rot[N + 1] = rot[N] + 1
          /\ program[rot[N + 1]].angle = ClaimedAngle(PmBs[N], phis, k)
          /\ \A m \in 1..(N - 1) :
                /\ SubSeq(program, rot[N + m] + 1, rot[N + m + 1] - 1)
                      = ClaimedCnots(PmBs[N - m + 1], PmBs[N - m])
                /\ program[rot[N + m + 1]].angle = ClaimedAngle(PmBs[N - m], phis, k)
          /\ \A j \in 1..Len(PmBs[1]) : PmBs[1][j] = 0
          /\ rot[2 * N] = Len(program)
C20_Witness ==
    /\ PmDone /\ rev /\ gray /\ Len(control_qubits) = 2
    /\ LET rz == AnglesOf(program, "RZ")
       IN  rz[1] # rz[2] /\ rz[3] # rz[4] /\ rz[1] # rz[4]

\* C21: for n = 0, a length-1 vector of norm 1 with an empty qubit list, each
\* synthesizer accepts the input and returns an empty gate sequence.
C21_ZeroQubitsAccepted ==
    (Finished /\ Synthesizer /\ Len(qubits) = 0
        /\ Len(state) = 1 /\ NormSq(state) = 1)
        => (outcome = "ok" /\ program = <<>>)

\* Bit of control assignment c (control_qubits[0] the most significant) at
\* the control qubit q.
AssignedBit(c, q) ==
    LET j == CHOOSE i \in 1..Len(control_qubits) : control_qubits[i] = q
    IN  (c \div Pow2(Len(control_qubits) - j)) % 2
\* -1 if, among the CNOTs emitted before position p, those whose control is
\* 1 in c are odd in number, +1 otherwise.
SignBefore(prog, p, c) ==
    LET ones == {q \in 1..(p - 1) :
                    prog[q].kind = "CNOT" /\ AssignedBit(c, prog[q].control) = 1}
    IN  IF Cardinality(ones) % 2 = 0 THEN 1 ELSE -1
\* The signed sum of the angles of the rotations of one kind.
SignedSum(prog, kind, c) ==
    SumSeq([p \in 1..Len(prog) |->
              IF prog[p].kind = kind THEN SignBefore(prog, p, c) * prog[p].angle
              ELSE 0])

\* C22: for every control assignment c, the sum of the emitted RY angles,
\* each negated when c has odd parity on the controls of the CNOTs emitted
\* before it, is thetas[c] * pi, and the same sum over the RZ angles is
\* phis[c] * pi, in all four settings of (GRAY_CODE, REVERSE_ZS).
C22_AnglesInvertTheTransform ==
    PmDone =>
      \A c \in 0..(Pow2(Len(control_qubits)) - 1) :
          /\ SignedSum(program, "RY", c) = Thetas(states)[c + 1]
          /\ SignedSum(program, "RZ", c) = Phis(states)[c + 1]
C22_Witness ==
    /\ PmDone /\ Len(control_qubits) = 2 /\ ~gray /\ rev
    /\ Thetas(states)[2] # Thetas(states)[4]
    /\ Phis(states)[4] # 0
    /\ SignedSum(program, "RY", 3) # program[1].angle

\* Whether control_qubits[j] has been the control of an odd number of the
\* first upto gates of the program (1 if odd, 0 if even).
ControlParity(prog, upto, j) ==
    Cardinality({q \in 1..upto :
                    prog[q].kind = "CNOT" /\ prog[q].control = control_qubits[j]}) % 2

\* C23: in all four settings, at each rotation prepare_multiplexed emits the
\* controls used an odd number of times as a CNOT control so far are exactly
\* the 1-bits of the rotation's bit-string, and after the whole sequence
\* every control has been used an even number of times.
C23_CnotParityTracksBitString ==
    PmDone =>
      LET rot == RotPositions(program)
      IN  /\ Len(rot) = 2 * Len(PmBs)
          /\ \A q \in 1..Len(rot) : \A j \in 1..Len(control_qubits) :
                ControlParity(program, rot[q] - 1, j) = BitStringOf(q)[j]
          /\ \A j \in 1..Len(control_qubits) :
                ControlParity(program, Len(program), j) = 0
C23_Witness ==
    /\ PmDone /\ ~rev /\ ~gray /\ Len(control_qubits) = 2
    /\ ControlParity(program, RotPositions(program)[4] - 1, 1) = 1
    /\ ControlParity(program, RotPositions(program)[4] - 1, 2) = 1
    /\ ControlParity(program, RotPositions(program)[5] - 1, 1) = 0

\* The number of gates of one kind in a gate sequence.
KindCount(prog, kind) == Len(SelectSeq(prog, LAMBDA g : g.kind = kind))
\* A call of Shende_Bullock_Markov with its default options that passed the
\* checks of lines 8-9 on at least one qubit.
SbmDefaultRun == SbmRuns /\ gray /\ rev /\ Len(qubits) >= 1
\* The gates level i appended: those whose target is qubits[i].
LevelGates(i) == GatesOn(program, qubits[i + 1])

\* C24: with the default options (Gray code, REVERSE_ZS) level i of
\* Shende_Bullock_Markov emits exactly 2^i RY, 2^i RZ and 2*(2^i - 1) CNOT
\* gates, so that a returned program of n >= 1 qubits holds 2^n - 1 RY,
\* 2^n - 1 RZ and 2*(2^n - 1 - n) CNOT gates and no gate of another kind.
C24_DefaultGateCounts ==
    SbmDefaultRun =>
      /\ \A p \in 1..Len(program) : program[p].kind \in {"RY", "RZ", "CNOT"}
      /\ \A i \in 0..(level - 1) :
            /\ KindCount(LevelGates(i), "RY") = Pow2(i)
            /\ KindCount(LevelGates(i), "RZ") = Pow2(i)
            /\ KindCount(LevelGates(i), "CNOT") = 2 * (Pow2(i) - 1)
      /\ pc = "done" =>
            LET n == Len(qubits)
            IN  /\ KindCount(program, "RY") = Pow2(n) - 1
                /\ KindCount(program, "RZ") = Pow2(n) - 1
                /\ KindCount(program, "CNOT") = 2 * (Pow2(n) - 1 - n)
                /\ Len(program) = 2 * (Pow2(n) - 1) + 2 * (Pow2(n) - 1 - n)
C24_Witness ==
    /\ SbmDefaultRun /\ pc = "done" /\ Len(qubits) = 3
    /\ KindCount(LevelGates(2), "CNOT") = 6
    /\ KindCount(program, "CNOT") = 8
    /\ Len(program) = 22

\* The recursive invocations of Bergholm_Vartiainen_Mottonen_Salomaa: the
\* frames above the caller's own.
RecursiveFrames == 2..Len(stack)
\* The assertion of line 9 failed in a recursive invocation.
RecursiveLengthFailure ==
    alg = "BVMS" /\ pc = "failed" /\ raisedAt = 9 /\ Len(stack) >= 2
\* The assertion of line 25 failed in a call made by Shende_Bullock_Markov.
LevelLengthFailure == alg = "SBM" /\ pc = "failed" /\ raisedAt = 25

\* C25: once the caller's input has passed the top-level checks, no internal
\* length assertion fails: every recursive call of
\* Bergholm_Vartiainen_Mottonen_Salomaa receives a vector of length
\* 2^(number of qubits passed to it), and every prepare_multiplexed call
\* made by Shende_Bullock_Markov receives 2^(number of control qubits)
\* states.
C25_InternalLengthsAgree ==
    /\ ~RecursiveLengthFailure
    /\ ~LevelLengthFailure
    /\ \A d \in RecursiveFrames :
          Len(stack[d].state) = Pow2(Len(stack[d].qubits))
    /\ (states # <<>>) => PmLengthOk(states, control_qubits)
C25_Witness ==
    /\ alg = "BVMS" /\ pc = "bvms" /\ Len(stack) = 3 /\ Top.at = "entry"
    /\ Len(Top.state) = 2 /\ Len(Top.qubits) = 1
    /\ Len(states) = 4 /\ Len(control_qubits) = 2
====
